---- MODULE Spec2Model ----
(***************************************************************************)
(* Model of the streaming session manager of substreams-sink: Sinker.New,  *)
(* Sinker.Run, Sinker.run, Sinker.adjustedEndBlock and Sinker.doRequest,   *)
(* together with the undo buffer and the cursor they use, the Substreams   *)
(* server that feeds the stream and the user handler that is called back.  *)
(***************************************************************************)
EXTENDS Integers, Sequences, FiniteSets, Bags, TLC

\* ------------------------------------------------------------------ bounds
MaxBlock == 4       \* highest block number of the chain the server streams
MaxMsgs == 5        \* data and undo messages the server sends in one run
MaxCap == 2         \* largest undo buffer capacity given to WithBlockDataBuffer
MaxEvents == 1      \* disturbances in one run: undo signals (reorganisations
                    \* of the chain), transient failures of the transport,
                    \* cancellation of the context
UintBits == 4       \* width of the unsigned integers (64 in the program)
RetryMsgs == 2      \* data and undo messages of a run of the retry study
ExtraFaults == 1    \* disturbances of a run of the retry study beyond the
                    \* retries the backoff grants

MaxEnd == 2        \* highest block of a completed range of a Progress message
FrameMsgs == 3     \* messages of the stream in the study of the other
                   \* message types
ProgressMsgs == 1  \* Progress messages in the study of the gauge
GrowthMsgs == 2    \* Progress messages in the study of growing ranges
MaxHeaders == 2    \* extra headers given to the sinker

\* ------------------------------------------------------- program constants
MaxRetries == 15    \* backoff.WithMaxRetries(backOff, 15)

VARIABLES
    \* Sinker fields (options and state)
    buffer,                  \* s.buffer: [present, size, data]
    blockRange,              \* s.blockRange: [present, start, hasEnd, end]
    infiniteRetry,           \* s.infiniteRetry
    finalBlocksOnly,         \* s.finalBlocksOnly
    livenessChecker,         \* s.livenessChecker: [present, liveFrom]
    mode,                    \* s.mode: "production" or "development"
    extraHeaders,            \* s.extraHeaders: a sequence of <<key, value>>
    clientHeaders,           \* the headers NewSubstreamsClient returns, those
                             \* of the authenticator: [present, kv]
    requestActiveStartBlock, \* s.requestActiveStartBlock
    \* the handler given to Run
    hasCompletion,           \* what the type assertion of Run found the handler
                             \* to be: "unasked", "yes" (it implements
                             \* SinkerCompletionHandler) or "no"
    \* locals of Run / run / doRequest
    pc,                      \* where Run is
    activeCursor,            \* run's activeCursor
    receivedMessage,         \* doRequest's receivedMessage
    numTries,                \* the counter of backoff.WithMaxRetries
    req,                     \* the request of the current session
    headersArray,            \* run's headersArray, the key/value pairs put in
                             \* the outgoing metadata of every request: a bag,
                             \* the order being that of Go's map iteration
    runErr,                  \* the error run returned
    shutdownErr,             \* the error Run gave to Shutdown
    canceled,                \* ctx.Err() == context.Canceled
    closed,                  \* the gRPC client is closed: the termination hook
                             \* run registers has called closeFunc
    \* the server side of the stream: the chain has one block per number
    \* from 1 on, and the server streams it in ascending order
    head,                    \* number of the last valid block of the stream
    chain,                   \* blocks sent and not undone since
    fork,                    \* the fork the server is on: undo signals sent
    msgsLeft,                \* data, undo and observed messages the server may
                             \* still send
    stages,                  \* msg.Stages of the Progress messages it sends:
                             \* per stage its completed ranges
    eventsLeft,              \* disturbances the run may still meet
    \* what happened so far
    calls,                   \* handler invocations, in order
    lastMsg,                 \* the last data or undo message received
    session,                 \* the session of the run: "none", "first", "later"
    lastErr,                 \* the error the last doRequest returned
    undoSeen,                \* a BlockUndoSignal was received in the run
    maxNum,                  \* highest block number received in the run
    lastContiguousBlock,     \* the gauge ProgressMessageLastContiguousBlock:
                             \* its value per stage, Unset when never set
    streak,                  \* consecutive doRequest calls that returned a
                             \* retryable error without a message received
    callsAtOpen              \* handler invocations made when the current
                             \* session was opened

vars == <<buffer, blockRange, infiniteRetry, finalBlocksOnly,
          livenessChecker, mode, extraHeaders, clientHeaders,
          headersArray, lastContiguousBlock,
          requestActiveStartBlock, hasCompletion, pc, activeCursor,
          receivedMessage, numTries, req, runErr, shutdownErr, canceled,
          closed, head, chain, fork, msgsLeft, stages, eventsLeft, calls, lastMsg, session,
          lastErr, undoSeen, maxNum, streak, callsAtOpen>>

\* ---------------------------------------------------------------- integers
\* math.MaxUint64
MaxUint64 == 2^UintBits - 1

\* ------------------------------------------------------------------ blocks
Block(n, i) == [num |-> n, id |-> i]
NoBlock == Block(0, 0)

\* ----------------------------------------------------------------- cursors
\* A cursor string on the wire is empty, undecodable, or the opaque encoding
\* of a block reference.
EmptyStr == [kind |-> "empty", block |-> NoBlock]
BadStr == [kind |-> "bad", block |-> NoBlock]
Enc(b) == [kind |-> "opaque", block |-> b]

\* The blank cursor: what a nil *Cursor and the parse of "" stand for.
BlankCursor == [blank |-> TRUE, block |-> NoBlock]

\* NewCursor(s): fails when s is non-empty and not decodable.
NewCursor(s) ==
    [err |-> s.kind = "bad",
     cursor |-> IF s.kind = "opaque"
                THEN [blank |-> FALSE, block |-> s.block]
                ELSE BlankCursor]

\* Cursor.String()
CursorString(c) == IF c.blank THEN EmptyStr ELSE Enc(c.block)

\* Cursor.Block()
CursorBlock(c) == c.block

\* ------------------------------------------------------------- undo buffer
NoBuffer == [present |-> FALSE, size |-> 0, data |-> <<>>]
newBlockDataBuffer(n) == [present |-> TRUE, size |-> n, data |-> <<>>]

\* WithBlockDataBuffer(N): N == 0 disables buffering.
WithBlockDataBuffer(n) == IF n = 0 THEN NoBuffer ELSE newBlockDataBuffer(n)

Capacity(buf) == buf.size

\* blockDataBuffer.HandleBlockScopedData: when the buffer already holds
\* Capacity blocks the oldest one is popped and returned, and bsd is appended.
BufferHandleBlockScopedData(buf, bsd) ==
    IF Len(buf.data) >= buf.size
    THEN [released |-> <<Head(buf.data)>>,
          buf |-> [buf EXCEPT !.data = Append(Tail(buf.data), bsd)]]
    ELSE [released |-> <<>>,
          buf |-> [buf EXCEPT !.data = Append(buf.data, bsd)]]

RECURSIVE PopWhileAbove(_, _)
\* pops from the tail while top.number > h
PopWhileAbove(data, h) ==
    IF data /= <<>> /\ data[Len(data)].clock.num > h
    THEN PopWhileAbove(SubSeq(data, 1, Len(data) - 1), h)
    ELSE data

\* blockDataBuffer.HandleBlockUndoSignal: UndoOutOfWindow when the pops drain
\* the buffer, so that the undo target is not represented in it.
BufferHandleBlockUndoSignal(buf, undo) ==
    LET kept == PopWhileAbove(buf.data, undo.lastValidBlock.num)
    IN  IF kept = <<>>
        THEN [err |-> TRUE, buf |-> buf]
        ELSE [err |-> FALSE, buf |-> [buf EXCEPT !.data = kept]]

\* ------------------------------------------------------------ block range
NoRange == [present |-> FALSE, start |-> 0, hasEnd |-> FALSE, end |-> 0]
OpenRange(s) == [present |-> TRUE, start |-> s, hasEnd |-> FALSE, end |-> 0]
ClosedRange(s, e) == [present |-> TRUE, start |-> s, hasEnd |-> TRUE, end |-> e]

\* the block ranges a sinker is configured with: none, 1 and up, [1, 3)
Ranges == {NoRange, OpenRange(1), ClosedRange(1, 3)}

\* bstream.Range.StartBlock(), for a call that returns
StartBlock(range) == range.start

\* adjustedEndBlock without the finality margin of the buffer
adjustedEndBlockNoMargin(range, buf) ==
    IF ~range.present \/ ~range.hasEnd THEN 0 ELSE range.end

\* adjustedEndBlock with the sentinel the requests carried before v0.3.0
adjustedEndBlockSentinel(range, buf) ==
    IF ~range.present \/ ~range.hasEnd
    THEN MaxUint64
    ELSE IF buf.present
         THEN (range.end + Capacity(buf)) % (MaxUint64 + 1)
         ELSE range.end

\* Sinker.adjustedEndBlock
adjustedEndBlock(range, buf) ==
    IF ~range.present \/ ~range.hasEnd
    THEN 0
    ELSE IF buf.present
         THEN (range.end + Capacity(buf)) % (MaxUint64 + 1)
         ELSE range.end

\* ------------------------------------------------------------------ errors
Err(k, r, c) == [kind |-> k, retryable |-> r, cause |-> c]
NoErr == Err("nil", FALSE, "nil")
EOF == Err("EOF", FALSE, "nil")

\* retryable(err): derr.NewRetryableError(err)
retryable(e) == [e EXCEPT !.retryable = TRUE]

\* io.EOF taken for an error like the others
IsEOFNever(e) == FALSE

\* errors.Is(err, io.EOF)
IsEOF(e) == e.kind = "EOF"

\* an undecodable cursor taken for a transient failure
InvalidCursorRetryable(which) == Err("InvalidCursor", TRUE, which)

\* fmt.Errorf("invalid received cursor, ...: %w", err): what doRequest
\* returns when the cursor of a message (which: data or undo) does not parse
InvalidCursor(which) == Err("InvalidCursor", FALSE, which)

\* every error taken for a retryable one
IsRetryableAlways(e) == TRUE

\* errors.As(err, &retryableError)
IsRetryable(e) == e.retryable

\* ErrBackOffExpired alone, the cause left out
BackOffExpiredBare(e) == Err("BackOffExpired", FALSE, "nil")

\* the retryable error itself returned once the backoff stops
BackOffExpiredUnwrapped(e) == e

\* fmt.Errorf("%w: %w", ErrBackOffExpired, retryableError.Unwrap())
BackOffExpired(e) == Err("BackOffExpired", FALSE, e.kind)

\* what a handler method returns: nil, a plain error, a retryable error
HandlerReturns == {"ok", "err", "retryable"}

\* every handler error taken for a plain one
HandlerErrPlain(ret) == Err("Handler", FALSE, "nil")

\* every handler error taken for a retryable one
HandlerErrRetryable(ret) == Err("Handler", TRUE, "nil")

\* the error doRequest returns when the handler returned one: it wraps the
\* handler's error, which is a derr.RetryableError or not
HandlerErr(ret) == Err("Handler", ret = "retryable", "nil")

\* ----------------------------------------------------------------- backoff
\* the backoff without backoff.WithMaxRetries, whatever infiniteRetry is
NextBackOffNoCap(infinite, tries, ctxDone) ==
    [stop |-> ctxDone, tries |-> tries]

\* the backoff wrapped by backoff.WithMaxRetries, whatever infiniteRetry is
NextBackOffCapped(infinite, tries, ctxDone) ==
    IF ctxDone \/ MaxRetries <= tries THEN [stop |-> TRUE, tries |-> tries]
    ELSE [stop |-> FALSE, tries |-> tries + 1]

\* backOff.NextBackOff() of backoff.WithContext(backoff.WithMaxRetries(bo, 15),
\* ctx), the inner wrapper being there only when infiniteRetry is false; the
\* exponential backoff itself never stops (MaxElapsedTime = 0).
NextBackOff(infinite, tries, ctxDone) ==
    IF ctxDone THEN [stop |-> TRUE, tries |-> tries]
    ELSE IF infinite THEN [stop |-> FALSE, tries |-> tries]
    ELSE IF MaxRetries <= tries THEN [stop |-> TRUE, tries |-> tries]
    ELSE [stop |-> FALSE, tries |-> tries + 1]

\* ----------------------------------------------------------------- request
\* a request that never carries a cursor
NewRequestFromStart(range, stop, cursor, final) ==
    [startBlockNum |-> StartBlock(range),
     stopBlockNum |-> stop,
     startCursor |-> EmptyStr,
     finalBlocksOnly |-> final]

\* the request of one turn of run's loop
NewRequest(range, stop, cursor, final) ==
    [startBlockNum |-> StartBlock(range),
     stopBlockNum |-> stop,
     startCursor |-> CursorString(cursor),
     finalBlocksOnly |-> final]
NoRequest == [startBlockNum |-> 0, stopBlockNum |-> 0,
              startCursor |-> EmptyStr, finalBlocksOnly |-> FALSE]

\* ---------------------------------------------------------------- messages
\* A BlockScopedData carries clock and cursor, a BlockUndoSignal
\* lastValidBlock and lastValidCursor; the other fields are left at zero.
BlockScopedData(b, cur) ==
    [type |-> "data", clock |-> b, cursor |-> cur,
     lastValidBlock |-> NoBlock, lastValidCursor |-> EmptyStr]
BlockUndoSignal(b, cur) ==
    [type |-> "undo", clock |-> NoBlock, cursor |-> EmptyStr,
     lastValidBlock |-> b, lastValidCursor |-> cur]
Progress(st) == [type |-> "progress", stages |-> st]
Session(rsb) == [type |-> "session", resolvedStartBlock |-> rsb]
DebugSnapshot == [type |-> "debug"]
Unknown == [type |-> "unknown"]
NoMessage ==
    [type |-> "none", clock |-> NoBlock, cursor |-> EmptyStr,
     lastValidBlock |-> NoBlock, lastValidCursor |-> EmptyStr]

\* -------------------------------------------------------- liveness checker
\* No checker, and the checker that finds live the blocks from number n on
\* (a delta checker finds live the blocks whose timestamp is recent).
NoChecker == [present |-> FALSE, liveFrom |-> 0]
LiveFrom(n) == [present |-> TRUE, liveFrom |-> n]

\* LivenessChecker.IsLive(clock)
IsLive(checker, clock) == clock.num >= checker.liveFrom

\* isLive computed on the block just received
IsLiveArgOfReceived(checker, released, received) ==
    IF ~checker.present THEN "nil"
    ELSE IF IsLive(checker, received.clock) THEN "true" ELSE "false"

\* the isLive argument of HandleBlockScopedData for a released block: a nil
\* pointer, or a pointer to liveBlock or blockNotLive
IsLiveArg(checker, released, received) ==
    IF ~checker.present THEN "nil"
    ELSE IF IsLive(checker, released.clock) THEN "true" ELSE "false"

\* ------------------------------------------------------------ handler calls
\* A handler invocation: the method, the block and the cursor string of the
\* message handed over, the isLive and cursor arguments, and what the handler
\* returned.
DataCall(bsd, live, cur, ret) ==
    [kind |-> "data", block |-> bsd.clock, wire |-> bsd.cursor,
     isLive |-> live, cursor |-> cur, ret |-> ret]
UndoCall(undo, cur, ret) ==
    [kind |-> "undo", block |-> undo.lastValidBlock,
     wire |-> undo.lastValidCursor, isLive |-> "nil", cursor |-> cur,
     ret |-> ret]
CompletionCall(cur, ret) ==
    [kind |-> "completion", block |-> CursorBlock(cur), wire |-> EmptyStr,
     isLive |-> "nil", cursor |-> cur, ret |-> ret]

\* ------------------------------------------------------------------ gauges
\* the stages a Progress message tells about, numbered from 0
MaxStages == 2
Stages == 0..(MaxStages - 1)
Unset == -1
NoGauge == [i \in Stages |-> Unset]

\* The completed ranges a stage may report: none, one, or two of which the
\* second lies above the first.
BlockRanges ==
    {r \in [startBlock : 1..MaxEnd, endBlock : 1..MaxEnd] :
        r.startBlock <= r.endBlock}
CompletedRanges ==
    {<<>>} \cup {<<r>> : r \in BlockRanges}
           \cup {p \in BlockRanges \X BlockRanges :
                    p[1].endBlock < p[2].startBlock}

\* msg.Stages: one to MaxStages stages; the stage numbered i is st[i + 1].
NoStages == <<>>
StagesOf(n) == [1..n -> CompletedRanges]
Progresses == UNION {StagesOf(n) : n \in 1..MaxStages}

\* the gauge set at the first range the test lets through only
StageGaugeFirstHit(m, isLast, rasb, ranges, g) ==
    IF m = "production" /\ isLast
    THEN LET hits == {j \in 1..Len(ranges) :
                        /\ rasb <= ranges[j].startBlock
                        /\ ranges[j].endBlock >= rasb}
         IN  IF hits = {} THEN g
             ELSE ranges[CHOOSE j \in hits : \A k \in hits : j <= k].endBlock
    ELSE IF Len(ranges) > 0 THEN ranges[1].endBlock ELSE g

\* The value of the gauge of one stage after the loop over its completed
\* ranges, g being its value before: the gauge is set at each range the test
\* lets through, so the last of them stays.
StageGauge(m, isLast, rasb, ranges, g) ==
    IF m = "production" /\ isLast
    THEN LET hits == {j \in 1..Len(ranges) :
                        /\ rasb <= ranges[j].startBlock
                        /\ ranges[j].endBlock >= rasb}
         IN  IF hits = {} THEN g
             ELSE ranges[CHOOSE j \in hits : \A k \in hits : k <= j].endBlock
    ELSE IF Len(ranges) > 0 THEN ranges[1].endBlock ELSE g

\* ProgressMessageLastContiguousBlock after a Progress message with stages st
LastContiguousBlock(m, rasb, st, gauge) ==
    [i \in Stages |->
        IF i < Len(st)
        THEN StageGauge(m, i = Len(st) - 1, rasb, st[i + 1], gauge[i])
        ELSE gauge[i]]

\* ----------------------------------------------------------------- headers
HeaderKeys == {"authorization", "x-trace"}
HeaderValues == {"v1", "v2"}

\* client.Headers: nil, or a map from keys to values
NoHeaders == [present |-> FALSE, kv |-> <<>>]
Headers(m) == [present |-> TRUE, kv |-> m]
ClientHeaders ==
    {NoHeaders}
        \cup {Headers(m) : m \in UNION {[ks -> HeaderValues] :
                                           ks \in SUBSET HeaderKeys}}

\* the extra headers that may be configured, each "key: value" string given
\* by its key and its value
ExtraHeaders ==
    UNION {[1..n -> HeaderKeys \X HeaderValues] : n \in 0..MaxHeaders}

\* parseHeaders of well-formed headers: the map from each key to the value
\* of the last header with that key
parseHeaders(hs) ==
    [k \in {hs[i][1] : i \in 1..Len(hs)} |->
        hs[CHOOSE i \in 1..Len(hs) :
              /\ hs[i][1] = k
              /\ \A j \in (i + 1)..Len(hs) : hs[j][1] /= k][2]]

\* the key/value pairs of a map, each once
Pairs(m) == SetToBag({<<k, m[k]>> : k \in DOMAIN m})

\* headers after the first loop of run: the extra headers written over the
\* client's
MergedHeaders(extra, client) ==
    LET parsed == parseHeaders(extra)
    IN  [k \in DOMAIN client.kv \cup DOMAIN parsed |->
            IF k \in DOMAIN parsed THEN parsed[k] ELSE client.kv[k]]

\* headersArray as run builds it: the pairs of the parsed extra headers, then
\* the pairs of headers, into which the extra headers were merged before
HeadersArray(extra, client) ==
    IF Len(extra) > 0 \/ client.present
    THEN Pairs(parseHeaders(extra)) (+) Pairs(MergedHeaders(extra, client))
    ELSE EmptyBag

\* ------------------------------------------------------------ construction
\* New with the buffer kept whatever the other options are
NewKeepsBuffer(optBuffer, final) == optBuffer

\* New: the options are applied, then final blocks only discards the buffer.
New(optBuffer, final) ==
    IF final /\ optBuffer.present THEN NoBuffer ELSE optBuffer

InitialCursors == {BlankCursor}

\* The sinker as New leaves it and the arguments of Run, for the given
\* options, plus what the environment may do in the run.
ConfigureWith(finals, infinites, caps, ranges, msgs, events, checkers, modes, progresses, extras, clients) ==
    /\ finalBlocksOnly \in finals
    /\ extraHeaders \in extras
    /\ clientHeaders \in clients
    /\ headersArray = EmptyBag
    /\ stages \in progresses
    /\ livenessChecker \in checkers
    /\ mode \in modes
    /\ lastContiguousBlock = NoGauge
    /\ infiniteRetry \in infinites
    /\ \E n \in caps : buffer = New(WithBlockDataBuffer(n), finalBlocksOnly)
    /\ blockRange \in ranges
    /\ hasCompletion = "unasked"
    /\ activeCursor \in InitialCursors
    /\ msgsLeft = msgs
    /\ eventsLeft = events
    /\ requestActiveStartBlock = 0
    /\ pc = "new"
    /\ receivedMessage = FALSE
    /\ numTries = 0
    /\ req = NoRequest
    /\ runErr = NoErr
    /\ shutdownErr = NoErr
    /\ lastErr = NoErr
    /\ canceled = FALSE
    /\ closed = FALSE
    /\ head = 0
    /\ chain = <<>>
    /\ fork = 0
    /\ calls = <<>>
    /\ lastMsg = NoMessage
    /\ session = "none"
    /\ undoSeen = FALSE
    /\ maxNum = 0
    /\ streak = 0
    /\ callsAtOpen = 0

\* the same without headers
Configure(finals, infinites, caps, ranges, msgs, events, checkers, modes, progresses) ==
    ConfigureWith(finals, infinites, caps, ranges, msgs, events, checkers,
                  modes, progresses, {<<>>}, {NoHeaders})

Init ==
    Configure(BOOLEAN, {FALSE}, 0..MaxCap, Ranges, MaxMsgs, MaxEvents,
              {NoChecker}, {"production"}, {NoStages})

\* the variables in groups, for the UNCHANGED clauses
options ==
    <<blockRange, infiniteRetry, finalBlocksOnly, livenessChecker, mode,
      extraHeaders, clientHeaders>>
server == <<head, chain, fork, msgsLeft>>
outcome == <<pc, numTries, runErr, lastErr, streak>>
history == <<calls, lastMsg, undoSeen, maxNum, callsAtOpen>>
gauges == <<lastContiguousBlock>>

\* --------------------------------------------------------------- Sinker.run
\* the backoff never reset
ResetNever(recvd, tries) == tries

\* backOff.Reset() when doRequest reports a received message
ResetTries(recvd, tries) == IF recvd THEN 0 ELSE tries

\* What a read of ctx.Err() may find: the context stays canceled once it is,
\* and the caller may have canceled it since the last read (seen) when the
\* run can still meet a disturbance.
CtxDone(seen, avail) == {seen} \cup (IF ~seen /\ avail > 0 THEN {TRUE} ELSE {})

\* The part of run's loop that follows doRequest: reset of the backoff,
\* classification of the error, backoff or return. The context is read twice,
\* by run after the test for io.EOF and by the backoff; spent tells the
\* disturbances the step has met before.
AfterRequest(recvd, err, spent) ==
    LET tries == ResetTries(recvd, numTries)
        avail == eventsLeft - spent
    IN  /\ lastErr' = err
        /\ streak' = IF closed THEN streak
                     ELSE IF IsRetryable(err) /\ ~recvd THEN streak + 1
                     ELSE 0
        /\ \E d1 \in CtxDone(canceled, avail) : \E d2 \in CtxDone(d1, avail) :
             LET bo == NextBackOff(infiniteRetry, tries, d2)
                 done == IF IsEOF(err) THEN canceled
                         ELSE IF d1 THEN TRUE
                         ELSE IF IsRetryable(err) THEN d2
                         ELSE FALSE
             IN  /\ canceled' = done
                 /\ eventsLeft' = IF done /\ ~canceled THEN avail - 1
                                  ELSE avail
                 /\ IF IsEOF(err) \/ d1
                    THEN /\ pc' = "returned"
                         /\ runErr' = NoErr
                         /\ numTries' = tries
                    ELSE IF IsRetryable(err)
                    THEN IF bo.stop
                         THEN /\ pc' = "returned"
                              /\ runErr' = BackOffExpired(err)
                              /\ numTries' = bo.tries
                         ELSE /\ pc' = "sleep"
                              /\ runErr' = runErr
                              /\ numTries' = bo.tries
                    ELSE /\ pc' = "returned"
                         /\ runErr' = err
                         /\ numTries' = tries

\* doRequest goes on with its loop: run does not get the control back.
Continue(spent) ==
    /\ UNCHANGED outcome
    /\ canceled' = canceled
    /\ eventsLeft' = eventsLeft - spent

\* Run up to the loop of run. The range is asked for its start block: with a
\* nil range the call either panics or, in a build whose Range tolerates a
\* nil receiver, returns the zero start block.
Run ==
    /\ pc = "new"
    /\ pc' \in (IF blockRange.present THEN {"loop"} ELSE {"loop", "panic"})
    /\ headersArray' = HeadersArray(extraHeaders, clientHeaders)
    /\ UNCHANGED <<options, closed, stages, gauges, hasCompletion,
                   server, history, buffer, requestActiveStartBlock,
                   activeCursor, receivedMessage, numTries, req, runErr,
                   lastErr, streak, shutdownErr, canceled, eventsLeft,
                   session>>

\* The start block the server resolves a request to: the chain begins at
\* block 1.
ResolvedStartBlock(r) == IF r.startBlockNum < 1 THEN 1 ELSE r.startBlockNum

\* a server that resumes at the block of the start cursor
ResumeHeadAtCursor(r) ==
    IF r.startCursor.kind = "opaque" THEN r.startCursor.block.num - 1
    ELSE ResolvedStartBlock(r) - 1

\* Where the server resumes: after the block of the start cursor, or at the
\* resolved start block when the cursor is empty.
ResumeHead(r) ==
    IF r.startCursor.kind = "opaque" THEN r.startCursor.block.num
    ELSE ResolvedStartBlock(r) - 1

\* One turn of the loop: the request is built from the active cursor and the
\* stream is opened.
OpenStream ==
    /\ pc = "loop"
    /\ ~canceled
    /\ ~closed
    /\ LET r == NewRequest(blockRange, adjustedEndBlock(blockRange, buffer),
                           activeCursor, finalBlocksOnly)
       IN  /\ req' = r
           /\ head' = ResumeHead(r)
    /\ pc' = "recv"
    /\ receivedMessage' = FALSE
    /\ session' = IF session = "none" THEN "first" ELSE "later"
    /\ callsAtOpen' = Len(calls)
    /\ UNCHANGED <<options, headersArray, closed, stages, gauges, hasCompletion,
                   calls, lastMsg, undoSeen, maxNum, buffer,
                   requestActiveStartBlock, activeCursor, numTries, runErr,
                   lastErr, streak, shutdownErr, canceled, chain, fork,
                   msgsLeft, eventsLeft>>

\* The error doRequest returns when the Blocks call fails with gRPC code c
\* ("nil": a failure of the transport, whatever its code): a retryable one.
OpenError(c) == retryable(Err("Open", FALSE, c))

\* The Blocks call fails with one of the codes: doRequest returns at once.
OpenFailWith(codes) ==
    /\ pc = "loop"
    /\ canceled \/ closed \/ eventsLeft > 0
    /\ req' = NewRequest(blockRange, adjustedEndBlock(blockRange, buffer),
                         activeCursor, finalBlocksOnly)
    /\ receivedMessage' = FALSE
    /\ \E c \in codes :
         AfterRequest(FALSE, OpenError(c),
                      IF canceled \/ closed THEN 0 ELSE 1)
    /\ UNCHANGED <<options, headersArray, closed, stages, gauges, hasCompletion,
                   server, history, buffer, requestActiveStartBlock,
                   activeCursor, shutdownErr, session>>

\* the Blocks call fails on the transport
OpenFail == OpenFailWith({"nil"})

\* the Blocks call fails with the status Unauthenticated or InvalidArgument
OpenRefused == OpenFailWith({"Unauthenticated", "InvalidArgument"})

\* time.Sleep(sleepFor) is over.
Wake ==
    /\ pc = "sleep"
    /\ pc' = "loop"
    /\ UNCHANGED <<options, headersArray, closed, stages, gauges, hasCompletion,
                   server, history, buffer, requestActiveStartBlock,
                   activeCursor, receivedMessage, numTries, req, runErr,
                   lastErr, streak, shutdownErr, canceled, eventsLeft,
                   session>>

\* The caller cancels the context.
Cancel ==
    /\ pc \in {"loop", "recv", "sleep", "returned"}
    /\ ~canceled
    /\ eventsLeft > 0
    /\ canceled' = TRUE
    /\ eventsLeft' = eventsLeft - 1
    /\ UNCHANGED <<options, headersArray, closed, stages, gauges, hasCompletion,
                   server, history, outcome, buffer,
                   requestActiveStartBlock, activeCursor, receivedMessage,
                   req, shutdownErr, session>>

\* --------------------------------------------------------- Sinker.doRequest
Min(a, b) == IF a < b THEN a ELSE b
Max(a, b) == IF a < b THEN b ELSE a

\* The server opens every stream with its Session message: the other
\* messages follow it.
InSession == pc = "recv" /\ ~canceled /\ ~closed /\ receivedMessage

\* The blocks the server may emit next: above the last valid block of the
\* stream and below the requested stop block (0: no stop block). The id of a
\* block tells the fork it is on, so a block sent again after an undo signal
\* is another block than the one sent before it.
NextBlocks ==
    LET top == IF req.stopBlockNum = 0 THEN MaxBlock
               ELSE Min(MaxBlock, req.stopBlockNum - 1)
    IN  {Block(n, fork) : n \in {head + 1} \cap (1..top)}

\* The block an undo signal to height h names: the block of the chain at that
\* height when there is one.
BlockAt(h) ==
    IF \E k \in 1..Len(chain) : chain[k].num = h
    THEN chain[CHOOSE k \in 1..Len(chain) : chain[k].num = h]
    ELSE Block(h, 0)

KeepUpTo(seq, h) == SelectSeq(seq, LAMBDA b : b.num <= h)

\* The cursor strings a message about block b may carry.
CursorsFor(b) == {Enc(b), BadStr}

\* dataToProcess with the received block processed besides what the buffer
\* releases
DataToProcessWithReceived(buf, bsd) ==
    IF ~buf.present
    THEN [released |-> <<bsd>>, buf |-> buf]
    ELSE LET r == BufferHandleBlockScopedData(buf, bsd)
         IN  [released |-> r.released \o <<bsd>>, buf |-> r.buf]

\* dataToProcess with a buffer that releases its oldest block as soon as it
\* holds one
DataToProcessEager(buf, bsd) ==
    IF ~buf.present
    THEN [released |-> <<bsd>>, buf |-> buf]
    ELSE IF buf.data /= <<>>
    THEN [released |-> <<Head(buf.data)>>,
          buf |-> [buf EXCEPT !.data = Append(Tail(buf.data), bsd)]]
    ELSE [released |-> <<>>,
          buf |-> [buf EXCEPT !.data = Append(buf.data, bsd)]]

\* dataToProcess with the buffer left aside
DataToProcessUnbuffered(buf, bsd) == [released |-> <<bsd>>, buf |-> buf]

\* dataToProcess: the received block itself without a buffer, else what the
\* buffer releases.
DataToProcess(buf, bsd) ==
    IF ~buf.present
    THEN [released |-> <<bsd>>, buf |-> buf]
    ELSE BufferHandleBlockScopedData(buf, bsd)

\* currentCursor taken from the message just received
CurrentCursorActive(released, active) == active

\* currentCursor: the cursor handed to HandleBlockScopedData for a released
\* block, parsed from that block (active is the cursor of the message).
CurrentCursor(released, active) == NewCursor(released.cursor).cursor

\* The handler invocations of the loop over dataToProcess: it stops at the
\* first invocation that returns an error.
DataCalls(out, bsd, active, ret) ==
    LET n == IF ret = "ok" THEN Len(out) ELSE Min(1, Len(out))
    IN  [k \in 1..n |->
            DataCall(out[k], IsLiveArg(livenessChecker, out[k], bsd),
                     CurrentCursor(out[k], active), ret)]

\* the undo signal handed to the handler whatever the sinker has
UndoAlwaysToHandler(buf) == TRUE

\* the undo signal handed to the buffer whatever the sinker has
UndoNeverToHandler(buf) == FALSE

\* the test of s.buffer the wrong way round
UndoToHandlerWhenBuffered(buf) == buf.present

\* Whether the undo signal goes to the handler (else to the buffer).
UndoToHandler(buf) == ~buf.present

\* the active cursor left where it was when a message comes in
ActiveCursorKept(active, parsed) == active

\* activeCursor = cursor: the cursor of the message just received replaces
\* the active cursor, before the message is handed to buffer or handler.
ActiveCursorAfter(active, parsed) == parsed

\* Response_BlockScopedData
RecvBlockScopedData ==
    /\ InSession
    /\ msgsLeft > 0
    /\ \E b \in NextBlocks, ret \in HandlerReturns : \E cur \in CursorsFor(b) :
         LET bsd == BlockScopedData(b, cur)
             parsed == NewCursor(bsd.cursor)
             step == DataToProcess(buffer, bsd)
             made == DataCalls(step.released, bsd, parsed.cursor, ret)
         IN  /\ head' = b.num
             /\ chain' = Append(chain, b)
             /\ fork' = fork
             /\ msgsLeft' = msgsLeft - 1
             /\ maxNum' = Max(maxNum, b.num)
             /\ lastMsg' = bsd
             /\ IF parsed.err
                THEN /\ AfterRequest(TRUE, InvalidCursor("data"), 0)
                     /\ UNCHANGED <<activeCursor, buffer, calls>>
                ELSE /\ activeCursor' =
                          ActiveCursorAfter(activeCursor, parsed.cursor)
                     /\ buffer' = step.buf
                     /\ calls' = calls \o made
                     /\ IF made /= <<>> /\ ret /= "ok"
                        THEN AfterRequest(TRUE, HandlerErr(ret), 0)
                        ELSE Continue(0)
    /\ UNCHANGED <<options, headersArray, closed, stages, gauges, hasCompletion,
                   requestActiveStartBlock, receivedMessage, req,
                   shutdownErr, session, undoSeen, callsAtOpen>>

\* Response_BlockUndoSignal
RecvBlockUndoSignal ==
    /\ InSession
    /\ ~req.finalBlocksOnly
    /\ msgsLeft > 0
    /\ eventsLeft > 0
    /\ \E h \in 0..(head - 1), bad \in BOOLEAN, ret \in HandlerReturns :
         LET lvb == BlockAt(h)
             undo == BlockUndoSignal(lvb, IF bad THEN BadStr ELSE Enc(lvb))
             parsed == NewCursor(undo.lastValidCursor)
             res == BufferHandleBlockUndoSignal(buffer, undo)
         IN  /\ head' = h
             /\ chain' = KeepUpTo(chain, h)
             /\ fork' = fork + 1
             /\ msgsLeft' = msgsLeft - 1
             /\ undoSeen' = TRUE
             /\ lastMsg' = undo
             /\ IF parsed.err
                THEN /\ AfterRequest(TRUE, InvalidCursor("undo"), 1)
                     /\ UNCHANGED <<activeCursor, buffer, calls>>
                ELSE /\ activeCursor' =
                          ActiveCursorAfter(activeCursor, parsed.cursor)
                     /\ IF UndoToHandler(buffer)
                        THEN /\ calls' =
                                  Append(calls,
                                         UndoCall(undo, parsed.cursor, ret))
                             /\ buffer' = buffer
                             /\ IF ret /= "ok"
                                THEN AfterRequest(TRUE, HandlerErr(ret), 1)
                                ELSE Continue(1)
                        ELSE /\ calls' = calls
                             /\ buffer' = res.buf
                             /\ IF res.err
                                THEN AfterRequest(TRUE,
                                         Err("UndoOutOfWindow", FALSE, "nil"),
                                         1)
                                ELSE Continue(1)
    /\ UNCHANGED <<options, headersArray, closed, stages, gauges, hasCompletion,
                   requestActiveStartBlock, receivedMessage, req,
                   shutdownErr, session, maxNum, callsAtOpen>>

\* Response_Session
RecvSession ==
    /\ pc = "recv"
    /\ ~canceled
    /\ ~closed
    /\ ~receivedMessage
    /\ receivedMessage' = TRUE
    /\ requestActiveStartBlock' = ResolvedStartBlock(req)
    /\ UNCHANGED <<options, headersArray, closed, stages, gauges, hasCompletion,
                   server, history, outcome, buffer, activeCursor,
                   req, shutdownErr, canceled, eventsLeft, session>>

\* an unknown message type ending the session on an error
FrameErrUnknown(msg) ==
    IF msg.type = "unknown" THEN Err("UnknownMessage", FALSE, "nil")
    ELSE NoErr

\* The error a case of the switch other than the two block cases leaves
\* doRequest with: none, the loop goes on to the next Recv.
FrameErr(msg) == NoErr

\* The cases of the switch other than BlockScopedData and BlockUndoSignal,
\* for the message msg. An observed message counts among the messages of
\* the stream and is remembered as the last one; the sinker does the same
\* with it either way.
Frame(msg, observed) ==
    /\ InSession
    /\ IF observed THEN msgsLeft > 0 ELSE TRUE
    /\ receivedMessage' = TRUE
    /\ requestActiveStartBlock' =
           IF msg.type = "session" THEN msg.resolvedStartBlock
           ELSE requestActiveStartBlock
    /\ lastContiguousBlock' =
           IF msg.type = "progress"
           THEN LastContiguousBlock(mode, requestActiveStartBlock,
                                    msg.stages, lastContiguousBlock)
           ELSE lastContiguousBlock
    /\ msgsLeft' = IF observed THEN msgsLeft - 1 ELSE msgsLeft
    /\ lastMsg' = IF observed THEN msg ELSE lastMsg
    /\ IF FrameErr(msg) = NoErr
       THEN Continue(0)
       ELSE AfterRequest(TRUE, FrameErr(msg), 0)
    /\ UNCHANGED <<options, headersArray, closed, stages, hasCompletion, head, chain, fork,
                   calls, undoSeen, maxNum, callsAtOpen, buffer,
                   activeCursor, req, shutdownErr, session>>

\* Response_Progress
RecvProgress == Frame(Progress(stages), FALSE)

\* Response_DebugSnapshotData, Response_DebugSnapshotComplete
RecvDebugSnapshot == Frame(DebugSnapshot, FALSE)

\* a message of a type this client does not know
RecvUnknown == Frame(Unknown, FALSE)

\* the same messages, observed
ObserveProgress == Frame(Progress(stages), TRUE)
ObserveDebugSnapshot == Frame(DebugSnapshot, TRUE)
ObserveUnknown == Frame(Unknown, TRUE)

\* Response_Session received once the session has had its first one, with
\* whatever resolved start block the server puts in it
ObserveSession == \E rsb \in 1..MaxEnd : Frame(Session(rsb), TRUE)

\* stream.Recv() returns io.EOF
RecvEOF ==
    /\ pc = "recv"
    /\ ~closed
    /\ AfterRequest(receivedMessage, EOF, 0)
    /\ UNCHANGED <<options, headersArray, closed, stages, gauges, hasCompletion,
                   server, history, buffer, requestActiveStartBlock,
                   activeCursor, receivedMessage, req, shutdownErr, session>>

\* The gRPC codes a receive may fail with: the canceled context fails it with
\* Canceled.
RecvCodes ==
    IF canceled \/ closed THEN {"Canceled"}
    ELSE {"Unauthenticated", "InvalidArgument"}
         \cup (IF eventsLeft > 0 THEN {"Unavailable"} ELSE {})

\* every receive error wrapped as a retryable one
RecvErrorAllRetryable(c) == retryable(Err(c, FALSE, "nil"))

\* The error doRequest returns for a receive error with gRPC code c.
RecvError(c) ==
    IF c \in {"Unauthenticated", "InvalidArgument"}
    THEN Err(c, FALSE, "nil")
    ELSE retryable(Err(c, FALSE, "nil"))

\* stream.Recv() returns an error that is not io.EOF
RecvFail ==
    /\ pc = "recv"
    /\ \E c \in RecvCodes :
         AfterRequest(receivedMessage, RecvError(c),
                      IF c = "Unavailable" THEN 1 ELSE 0)
    /\ UNCHANGED <<options, headersArray, closed, stages, gauges, hasCompletion,
                   server, history, buffer, requestActiveStartBlock,
                   activeCursor, receivedMessage, req, shutdownErr, session>>

\* stream.Recv() returns the status Unavailable on a connection that the
\* server or the network drops, as often as they like
RecvUnavailable ==
    /\ pc = "recv"
    /\ ~canceled
    /\ ~closed
    /\ AfterRequest(receivedMessage, RecvError("Unavailable"), 0)
    /\ UNCHANGED <<options, headersArray, closed, stages, gauges, hasCompletion,
                   server, history, buffer, requestActiveStartBlock,
                   activeCursor, receivedMessage, req, shutdownErr, session>>

\* --------------------------------------------------------------- Sinker.Run
\* the completion callback called on the failure of run
CallsCompletionOnError(err, has) == err /= NoErr /\ has

\* Whether Run calls HandleBlockRangeCompletion once run has returned err,
\* has telling whether the handler implements SinkerCompletionHandler.
CallsCompletion(err, has) == err = NoErr /\ has

\* The error Run gives to Shutdown when the completion callback, if called,
\* returned ret.
ShutdownErr(called, ret, err, ctxCanceled) ==
    IF called /\ ret /= "ok" THEN Err("Completion", FALSE, "nil")
    ELSE IF ctxCanceled THEN NoErr ELSE err

\* Run after run returned: the completion callback, then Shutdown.
Finish ==
    /\ pc = "returned"
    /\ pc' = "terminated"
    /\ \E has \in BOOLEAN, ret \in {"ok", "err"} :
         LET called == CallsCompletion(runErr, has)
         IN  /\ runErr = NoErr \/ (has /\ ret = "ok")
             /\ called \/ ret = "ok"
             /\ hasCompletion' = IF runErr /= NoErr THEN "unasked"
                                 ELSE IF has THEN "yes" ELSE "no"
             /\ calls' = IF called
                         THEN Append(calls, CompletionCall(activeCursor, ret))
                         ELSE calls
             /\ shutdownErr' = ShutdownErr(called, ret, runErr, canceled)
    /\ UNCHANGED <<options, headersArray, closed, stages, gauges, server, buffer, requestActiveStartBlock,
                   activeCursor, receivedMessage, numTries, req, runErr,
                   lastErr, streak, canceled, eventsLeft, session, lastMsg,
                   undoSeen, maxNum, callsAtOpen>>

Next ==
    \/ Run
    \/ OpenStream
    \/ OpenFail
    \/ Wake
    \/ Cancel
    \/ RecvBlockScopedData
    \/ RecvBlockUndoSignal
    \/ RecvSession
    \/ RecvProgress
    \/ RecvDebugSnapshot
    \/ RecvUnknown
    \/ RecvEOF
    \/ RecvFail
    \/ Finish

Spec == Init /\ [][Next]_vars

\* The run as a goroutine that is scheduled: a step that Run, the stream, the
\* sleep or the caller can take is eventually taken.
FairSpec == Spec /\ WF_vars(Next)

\* Shutdown called by another task while Run is active: the shutter runs the
\* termination hooks, and the one registered by run closes the gRPC client.
\* Nothing in run or doRequest asks the shutter whether it is terminating.
Shutdown ==
    /\ pc \in {"loop", "recv", "sleep"}
    /\ ~canceled
    /\ ~closed
    /\ closed' = TRUE
    /\ UNCHANGED <<options, headersArray, stages, gauges, hasCompletion, server, history,
                   outcome, buffer, activeCursor, requestActiveStartBlock,
                   receivedMessage, req, shutdownErr, canceled, eventsLeft,
                   session>>

\* The study of Shutdown: a sinker without buffer over the range [1, 3), with
\* or without infinite retry, whose context is never canceled and whose
\* stream meets no other disturbance than a Shutdown by another task; every
\* step that can be taken is eventually taken.
InitShutdown ==
    Configure({FALSE}, BOOLEAN, {0}, {ClosedRange(1, 3)}, RetryMsgs, 0,
              {NoChecker}, {"production"}, {NoStages})
NextShutdown ==
    \/ Run
    \/ OpenStream
    \/ OpenFail
    \/ Wake
    \/ Shutdown
    \/ RecvBlockScopedData
    \/ RecvSession
    \/ RecvEOF
    \/ RecvFail
    \/ Finish
SpecShutdown ==
    InitShutdown /\ [][NextShutdown]_vars /\ WF_vars(NextShutdown)

\* The study of the opening of the stream: a sinker without buffer over the
\* range [1, 3) whose Blocks call may also fail with the status
\* Unauthenticated or InvalidArgument.
InitOpen ==
    Configure({FALSE}, {FALSE}, {0}, {ClosedRange(1, 3)}, RetryMsgs,
              MaxEvents, {NoChecker}, {"production"}, {NoStages})
NextOpen ==
    \/ Run
    \/ OpenStream
    \/ OpenFail
    \/ OpenRefused
    \/ Wake
    \/ Cancel
    \/ RecvBlockScopedData
    \/ RecvSession
    \/ RecvEOF
    \/ RecvFail
    \/ Finish
SpecOpen == InitOpen /\ [][NextOpen]_vars

\* The study of the headers: sinkers with any extra headers and any client
\* headers, in a run over the range [1, 3) that meets no disturbance.
InitHeaders ==
    ConfigureWith({FALSE}, {FALSE}, {0}, {ClosedRange(1, 3)}, RetryMsgs, 0,
                  {NoChecker}, {"production"}, {NoStages}, ExtraHeaders,
                  ClientHeaders)
NextHeaders ==
    \/ Run
    \/ OpenStream
    \/ RecvSession
    \/ RecvBlockScopedData
    \/ RecvEOF
    \/ Finish
SpecHeaders == InitHeaders /\ [][NextHeaders]_vars

\* The study of the expiry of the backoff: a sinker without buffer over the
\* range [1, 3), without infinite retry, whose context is never
\* canceled, in front of a server whose streams all break, before or after
\* the messages it sends. The run is scheduled fairly: it goes on as long as
\* it can take a step.
InitExpiry ==
    Configure({FALSE}, {FALSE}, {0}, {ClosedRange(1, 3)}, RetryMsgs, 0,
              {NoChecker}, {"production"}, {NoStages})
NextExpiry ==
    \/ Run
    \/ OpenStream
    \/ Wake
    \/ RecvSession
    \/ RecvBlockScopedData
    \/ RecvUnavailable
    \/ Finish
SpecExpiry == InitExpiry /\ [][NextExpiry]_vars /\ WF_vars(NextExpiry)

\* The retry study: the same sinker and environment, with or without
\* infinite retry, over the range [1, 3) without buffer, in a run that meets
\* more disturbances than the backoff grants retries and few messages.
RetryEvents == MaxRetries + ExtraFaults
InitRetry ==
    Configure({FALSE}, BOOLEAN, {0}, {ClosedRange(1, 3)}, RetryMsgs,
              RetryEvents, {NoChecker}, {"production"}, {NoStages})
SpecRetry == InitRetry /\ [][Next]_vars

\* The liveness study: the same sinker and environment over the range
\* [1, 3), with and without a liveness checker that finds block 1 not live
\* and the blocks after it live.
Checkers == {NoChecker, LiveFrom(2)}
InitLive ==
    Configure({FALSE}, {FALSE}, 0..MaxCap, {ClosedRange(1, 3)}, MaxMsgs,
              MaxEvents, Checkers, {"production"}, {NoStages})
SpecLive == InitLive /\ [][Next]_vars

\* ================================================================== claims
\* the calls of HandleBlockScopedData, in order
DataCallsOf == SelectSeq(calls, LAMBDA c : c.kind = "data")

\* the block numbers of a sequence of calls
Nums(s) == [k \in 1..Len(s) |-> s[k].block.num]

StrictlyIncreasing(s) ==
    \A i, j \in 1..Len(s) : i < j => s[i] < s[j]

\* the cursor string a data or undo message carries
WireCursor(m) == IF m.type = "undo" THEN m.lastValidCursor ELSE m.cursor

\* the block a data or undo message names
WireBlock(m) == IF m.type = "undo" THEN m.lastValidBlock ELSE m.clock

\* a data or undo message is received in the step
MessageStep == msgsLeft' < msgsLeft

\* the last call is the one invocation, with the parsed cursor, for message m
LastCallIsFor(cs, m) ==
    /\ cs /= <<>>
    /\ cs[Len(cs)].kind = m.type
    /\ cs[Len(cs)].block = WireBlock(m)
    /\ cs[Len(cs)].wire = WireCursor(m)
    /\ cs[Len(cs)].cursor = NewCursor(WireCursor(m)).cursor

\* the last undo signal was not absorbed by the buffer
UndoRejected ==
    /\ lastMsg.type = "undo"
    /\ lastErr.kind \in {"UndoOutOfWindow", "InvalidCursor"}

\* The study of the other message types: a sinker with a buffer of one
\* block over the range [1, 3), in a stream of a few messages of every type
\* that meets no disturbance; the Progress messages tell of one stage.
InitFrames ==
    Configure({FALSE}, {FALSE}, {1}, {ClosedRange(1, 3)}, FrameMsgs, 0,
              {NoChecker}, {"production"}, StagesOf(1))
NextFrames ==
    \/ Run
    \/ OpenStream
    \/ RecvBlockScopedData
    \/ RecvSession
    \/ ObserveSession
    \/ ObserveProgress
    \/ ObserveDebugSnapshot
    \/ ObserveUnknown
    \/ RecvEOF
    \/ RecvFail
    \/ Finish
SpecFrames == InitFrames /\ [][NextFrames]_vars

\* The study of the gauge: sinkers of both modes whose range starts at any
\* block a completed range may name, and a stream that carries, after its
\* Session, Progress messages with any of the stages.
StartRanges == {ClosedRange(b, MaxEnd + 1) : b \in 1..MaxEnd}
InitProgress ==
    Configure({TRUE}, {FALSE}, {0}, StartRanges, ProgressMsgs, 0,
              {NoChecker}, {"production", "development"}, Progresses)
NextProgress ==
    \/ Run
    \/ OpenStream
    \/ RecvSession
    \/ ObserveProgress
    \/ RecvEOF
    \/ Finish
SpecProgress == InitProgress /\ [][NextProgress]_vars

\* The completed ranges of a stage only grow from old to new: every block
\* range completed before lies within one completed now.
RangesGrow(old, new) ==
    \A j \in 1..Len(old) : \E k \in 1..Len(new) :
        /\ new[k].startBlock <= old[j].startBlock
        /\ old[j].endBlock <= new[k].endBlock
Grows(old, new) ==
    /\ Len(new) = Len(old)
    /\ \A i \in 1..Len(old) : RangesGrow(old[i], new[i])

\* The server completes more blocks: the stages of its next Progress
\* message tell of larger completed ranges.
Complete ==
    /\ InSession
    /\ msgsLeft > 0
    /\ \E st \in StagesOf(Len(stages)) :
         /\ st /= stages
         /\ Grows(stages, st)
         /\ stages' = st
    /\ UNCHANGED <<options, headersArray, closed, gauges, hasCompletion, server, history, outcome,
                   buffer, activeCursor, requestActiveStartBlock,
                   receivedMessage, req, shutdownErr, canceled, eventsLeft,
                   session>>

\* The study of growing ranges: production sinkers as in the study of the
\* gauge, and a server whose completed ranges grow between its Progress
\* messages, which tell of one stage, the last one.
InitGrowth ==
    Configure({TRUE}, {FALSE}, {0}, StartRanges, GrowthMsgs, 0,
              {NoChecker}, {"production"}, StagesOf(1))
NextGrowth ==
    \/ Run
    \/ OpenStream
    \/ RecvSession
    \/ ObserveProgress
    \/ Complete
    \/ RecvEOF
    \/ Finish
SpecGrowth == InitGrowth /\ [][NextGrowth]_vars

\* ---------------------------------------------------------------------- C1
\* C1: in a run with no undo signal and no reconnect (the server emitting
\* blocks in ascending number), the block numbers passed to
\* HandleBlockScopedData are strictly increasing, with or without a buffer.
C1_StrictlyIncreasing ==
    (~undoSeen /\ session = "first") => StrictlyIncreasing(Nums(DataCallsOf))

\* two blocks were delivered through a buffer, in the first session, no undo
C1_Witness ==
    /\ ~undoSeen
    /\ session = "first"
    /\ buffer.present
    /\ Len(DataCallsOf) >= 2

\* ---------------------------------------------------------------------- C2
\* C2: every call of HandleBlockScopedData receives the cursor parsed from the
\* cursor of the very block it hands over: with a buffer, the cursor of the
\* released block and not that of the block received last.
C2_CursorOfSameBlock ==
    \A k \in 1..Len(calls) :
        calls[k].kind = "data" =>
            /\ calls[k].cursor = NewCursor(calls[k].wire).cursor
            /\ CursorBlock(calls[k].cursor) = calls[k].block

\* a buffered block was just released while the active cursor, that of the
\* block received last, is another one
C2_Witness ==
    /\ buffer.present
    /\ lastMsg.type = "data"
    /\ calls /= <<>>
    /\ calls[Len(calls)].kind = "data"
    /\ calls[Len(calls)].block /= lastMsg.clock
    /\ calls[Len(calls)].cursor /= activeCursor

\* ---------------------------------------------------------------------- C3
\* C3 as stated: without a buffer, every data or undo message received gets
\* exactly one handler invocation, in arrival order, and no other step adds
\* one; an undo call receives the cursor parsed from last_valid_cursor.
C3_OnePerMessage ==
    [][~buffer.present =>
          IF MessageStep
          THEN /\ Len(calls') = Len(calls) + 1
               /\ SubSeq(calls', 1, Len(calls)) = calls
               /\ LastCallIsFor(calls', lastMsg')
          ELSE \A k \in 1..Len(calls') :
                   k > Len(calls) => calls'[k].kind = "completion"]_vars

\* C3 amended: the same for every message whose cursor parses; a message
\* whose cursor does not parse gets no invocation.
C3_OnePerParsedMessage ==
    [][~buffer.present =>
          IF MessageStep /\ ~NewCursor(WireCursor(lastMsg')).err
          THEN /\ Len(calls') = Len(calls) + 1
               /\ SubSeq(calls', 1, Len(calls)) = calls
               /\ LastCallIsFor(calls', lastMsg')
          ELSE /\ MessageStep => calls' = calls
               /\ \A k \in 1..Len(calls') :
                      k > Len(calls) => calls'[k].kind = "completion"]_vars

\* without a buffer, a data call then the call for the undo signal received
\* last, with the cursor parsed from its last_valid_cursor
C3_Witness ==
    /\ ~buffer.present
    /\ lastMsg.type = "undo"
    /\ Len(calls) >= 2
    /\ calls[Len(calls) - 1].kind = "data"
    /\ calls[Len(calls)].kind = "undo"
    /\ calls[Len(calls)].cursor = NewCursor(lastMsg.lastValidCursor).cursor

\* ---------------------------------------------------------------------- C4
\* C4: with an undo buffer HandleBlockUndoSignal is never invoked, whatever
\* the messages and the reconnects.
C4_NoUndoCallWithBuffer ==
    buffer.present => \A k \in 1..Len(calls) : calls[k].kind /= "undo"

\* an undo signal was absorbed by the buffer and the session goes on
C4_Witness ==
    /\ buffer.present
    /\ lastMsg.type = "undo"
    /\ lastErr = NoErr
    /\ pc = "recv"

\* ---------------------------------------------------------------------- C5
\* C5: with an undo buffer, as long as every undo signal was absorbed, the
\* blocks delivered are blocks of the chain as the undo signals left it (a
\* block an undo dropped is not among them), in strictly increasing number.
C5_OnlyCanonicalBlocks ==
    (buffer.present /\ ~UndoRejected) =>
        /\ \A k \in 1..Len(DataCallsOf) :
               \E i \in 1..Len(chain) : chain[i] = DataCallsOf[k].block
        /\ StrictlyIncreasing(Nums(DataCallsOf))

\* the buffer absorbed an undo signal that dropped a block, the block was
\* sent again on the new fork and a block was released after that
C5_Witness ==
    /\ buffer.present
    /\ undoSeen
    /\ lastErr = NoErr
    /\ lastMsg.type = "data"
    /\ Len(buffer.data) = Capacity(buffer)
    /\ buffer.data[1].clock.id > 0
    /\ DataCallsOf /= <<>>

\* ---------------------------------------------------------------------- C6
\* C6 as stated: with a buffer of capacity C, an undo signal whose last valid
\* block is at or above b.number - C, b a block delivered before, does not
\* rewind b.
C6_NoRewindWithinCOfDelivered ==
    (buffer.present /\ lastMsg.type = "undo") =>
        \A k \in 1..Len(DataCallsOf) :
            LET b == DataCallsOf[k].block
            IN  lastMsg.lastValidBlock.num >= b.num - Capacity(buffer)
                    => lastMsg.lastValidBlock.num >= b.num

\* C6 amended: with a buffer of capacity C, an undo signal whose last valid
\* block is at or above H - C, H the highest block number received before it,
\* rewinds no block delivered before.
C6_NoRewindWithinCOfHead ==
    (buffer.present /\ lastMsg.type = "undo"
        /\ lastMsg.lastValidBlock.num >= maxNum - Capacity(buffer)) =>
        \A k \in 1..Len(DataCallsOf) :
            lastMsg.lastValidBlock.num >= DataCallsOf[k].block.num

\* blocks were delivered through the buffer and an undo signal no deeper than
\* the capacity came after
C6_Witness ==
    /\ buffer.present
    /\ lastMsg.type = "undo"
    /\ lastMsg.lastValidBlock.num >= maxNum - Capacity(buffer)
    /\ lastMsg.lastValidBlock.num < maxNum
    /\ DataCallsOf /= <<>>

\* ---------------------------------------------------------------------- C7
\* the undo signal m is deeper than the window buf holds
DeeperThanWindow(buf, m) ==
    /\ buf.data /= <<>>
    /\ \A k \in 1..Len(buf.data) :
           m.lastValidBlock.num < buf.data[k].clock.num

\* C7: with a buffer, an undo signal below every buffered block makes
\* doRequest fail with UndoOutOfWindow, and the failure is fatal: no handler
\* call for it, no sleep and no reconnect follow, and (the context not being
\* canceled meanwhile) run returns that error and Run shuts down with it.
C7_UndoOutOfWindowFatal ==
    [][/\ (buffer.present /\ MessageStep /\ lastMsg'.type = "undo"
              /\ ~NewCursor(lastMsg'.lastValidCursor).err
              /\ DeeperThanWindow(buffer, lastMsg'))
          => /\ lastErr'.kind = "UndoOutOfWindow"
             /\ calls' = calls
             /\ pc' = "returned"
             /\ runErr' = IF canceled' THEN NoErr ELSE lastErr'
       /\ (lastErr.kind = "UndoOutOfWindow")
          => /\ pc' \in {"returned", "terminated"}
             /\ runErr' = runErr
             /\ ~canceled' => (runErr' = lastErr /\ calls' = calls)
             /\ lastErr' = lastErr
             /\ (pc' = "terminated" /\ ~canceled')
                    => (shutdownErr' = lastErr /\ shutdownErr' /= NoErr)
      ]_vars

\* Run has shut down with the UndoOutOfWindow error of a buffer that had
\* released a block
C7_Witness ==
    /\ pc = "terminated"
    /\ lastErr.kind = "UndoOutOfWindow"
    /\ shutdownErr = lastErr
    /\ DataCallsOf /= <<>>
    /\ DeeperThanWindow(buffer, lastMsg)

\* ---------------------------------------------------------------------- C8
\* C8: with a buffer of capacity C and a range [start, E), no block numbered
\* E or above is ever delivered; and when the stream ends with io.EOF after
\* the server streamed the blocks up to the stop block of the request, with
\* no undo signal, that last block is E + C - 1, the handler was called for
\* exactly start..E-1 in order, and the last C blocks are in the buffer.
C8_ExactlyTheRange ==
    (buffer.present /\ blockRange.hasEnd) =>
        /\ \A k \in 1..Len(DataCallsOf) :
               DataCallsOf[k].block.num < blockRange.end
        /\ (lastErr = EOF /\ ~undoSeen /\ maxNum = req.stopBlockNum - 1) =>
               /\ maxNum = blockRange.end + Capacity(buffer) - 1
               /\ Nums(DataCallsOf) =
                      [k \in 1..(blockRange.end - blockRange.start) |->
                           blockRange.start + k - 1]
               /\ [k \in 1..Len(buffer.data) |-> buffer.data[k].clock.num] =
                      [k \in 1..Capacity(buffer) |-> blockRange.end + k - 1]

\* the stream of a buffered bounded run ended with io.EOF, after a reconnect,
\* the server having streamed up to E + C - 1
C8_Witness ==
    /\ buffer.present
    /\ blockRange.hasEnd
    /\ lastErr = EOF
    /\ ~undoSeen
    /\ session = "later"
    /\ maxNum = blockRange.end + Capacity(buffer) - 1
    /\ Len(DataCallsOf) = blockRange.end - blockRange.start

\* ---------------------------------------------------------------------- C9
\* the stop block the requests of this sinker are to carry
ExpectedStop ==
    IF ~blockRange.present \/ ~blockRange.hasEnd THEN 0
    ELSE IF buffer.present THEN blockRange.end + Capacity(buffer)
    ELSE blockRange.end

\* C9: every request carries stop_block_num 0 when the range is infinite (no
\* range or no end), E without a buffer, E + C with a buffer of capacity C;
\* never MaxUint64; and the same in every request of the run.
C9_StopBlockNum ==
    [][(pc = "loop" /\ pc' /= "loop") =>
          /\ req'.stopBlockNum = ExpectedStop
          /\ req'.stopBlockNum /= MaxUint64
          /\ session /= "none" => req'.stopBlockNum = req.stopBlockNum]_vars

\* a second request was sent by a buffered sinker with a bounded range
C9_Witness ==
    /\ session = "later"
    /\ buffer.present
    /\ blockRange.hasEnd
    /\ req.stopBlockNum = blockRange.end + Capacity(buffer)
    /\ req.startCursor /= EmptyStr

\* --------------------------------------------------------------------- C10
\* the calls of HandleBlockRangeCompletion
CompletionCallsOf == SelectSeq(calls, LAMBDA c : c.kind = "completion")

\* C10: HandleBlockRangeCompletion is called at most once and no handler call
\* follows it; when Run has ended on the io.EOF of a bounded range, the
\* context not canceled, with a handler that implements the completion
\* extension, it was called exactly once, after every data and undo call.
C10_CompletionOnceAndLast ==
    /\ Len(CompletionCallsOf) <= 1
    /\ \A k \in 1..Len(calls) : calls[k].kind = "completion" => k = Len(calls)
    /\ (pc = "terminated" /\ lastErr = EOF /\ blockRange.hasEnd /\ ~canceled
           /\ hasCompletion = "yes") =>
           /\ Len(CompletionCallsOf) = 1
           /\ calls[Len(calls)].kind = "completion"

\* Run ended on the io.EOF of a bounded range with data, undo and completion
\* calls made
C10_Witness ==
    /\ pc = "terminated"
    /\ lastErr = EOF
    /\ blockRange.hasEnd
    /\ ~canceled
    /\ hasCompletion = "yes"
    /\ Len(calls) >= 3
    /\ calls[Len(calls)].kind = "completion"
    /\ \E k \in 1..Len(calls) : calls[k].kind = "undo"

\* Run ended because run gave up on an error
EndedOnError == pc \in {"returned", "terminated"} /\ runErr /= NoErr

\* Run ended because run found the context canceled after a doRequest that
\* returned an error other than io.EOF
EndedOnCancel ==
    /\ pc \in {"returned", "terminated"}
    /\ runErr = NoErr
    /\ lastErr.kind /= "EOF"

\* C11: HandleBlockRangeCompletion is never invoked in a run that ends
\* because of an error (non-retryable or backoff expired), because the
\* context was canceled, or whose configured range has no end.
C11_NeverOnErrorCancelInfinite ==
    CompletionCallsOf /= <<>> =>
        /\ ~EndedOnError
        /\ ~EndedOnCancel
        /\ blockRange.present /\ blockRange.hasEnd

\* HandleBlockRangeCompletion was invoked in a run over a bounded range that
\* ended on the cancellation of the context, blocks delivered before
C11_Witness ==
    /\ pc = "terminated"
    /\ EndedOnCancel
    /\ canceled
    /\ blockRange.hasEnd
    /\ DataCallsOf /= <<>>
    /\ calls[Len(calls)].kind = "completion"

\* ---------------------------------------------------------------------- C12
\* the string form of the cursor of the last BlockScopedData or
\* BlockUndoSignal received in the run, of the cursor given to Run when there
\* is none
LastCursorString ==
    IF lastMsg.type = "none" THEN CursorString(BlankCursor)
    ELSE CursorString(NewCursor(WireCursor(lastMsg)).cursor)

\* doRequest returns in the step
SessionEnds == pc \in {"loop", "recv"} /\ pc' \in {"sleep", "returned"}

\* the backoff still grants a retry to a doRequest that returns now
RetryLeft ==
    infiniteRetry \/ ResetTries(receivedMessage', numTries) < MaxRetries

\* C12: when a session ends with a transient receive error (the context not
\* canceled, a retry left), the sinker sleeps, does nothing but wake up from
\* the sleep, and the request it then builds carries the string form of the
\* cursor of the last BlockScopedData or BlockUndoSignal received so far (of
\* the initial cursor when none was received) with the start_block_num and
\* stop_block_num of the request before.
C12_ReconnectFromLastCursor ==
    [][/\ (SessionEnds /\ pc = "recv" /\ lastErr'.kind = "Unavailable"
              /\ ~canceled' /\ RetryLeft)
          => (pc' = "sleep" /\ activeCursor' = activeCursor)
       /\ (pc = "sleep")
          => (pc' \in {"sleep", "loop"} /\ activeCursor' = activeCursor
                 /\ req' = req /\ lastMsg' = lastMsg)
       /\ (pc = "loop" /\ pc' /= "loop" /\ lastErr.kind = "Unavailable")
          => /\ req'.startCursor = LastCursorString
             /\ req'.startBlockNum = req.startBlockNum
             /\ req'.stopBlockNum = req.stopBlockNum
      ]_vars

\* a session opened after a transient receive error, with the cursor of a
\* block that was received and is still in the buffer, no block delivered yet
C12_Witness ==
    /\ pc = "recv"
    /\ session = "later"
    /\ lastErr.kind = "Unavailable"
    /\ lastMsg.type = "data"
    /\ buffer.present
    /\ calls = <<>>
    /\ req.startCursor = Enc(lastMsg.clock)
    /\ req.stopBlockNum = blockRange.end + Capacity(buffer)

\* ---------------------------------------------------------------------- C13
\* the handler invocations made before the current session was opened, and
\* those made in it
CallsBefore == SubSeq(calls, 1, callsAtOpen)
CallsSince == SubSeq(calls, callsAtOpen + 1, Len(calls))
IsDataCall(c) == c.kind = "data"
IsUndoCall(c) == c.kind = "undo"

\* the position in calls of the last data call before the current session
\* and of the first one in it (0: there is none)
LastDataBefore ==
    IF SelectSeq(CallsBefore, IsDataCall) = <<>> THEN 0
    ELSE CHOOSE k \in 1..callsAtOpen :
             /\ calls[k].kind = "data"
             /\ \A j \in (k + 1)..callsAtOpen : calls[j].kind /= "data"
FirstDataSince ==
    IF SelectSeq(CallsSince, IsDataCall) = <<>> THEN 0
    ELSE CHOOSE k \in (callsAtOpen + 1)..Len(calls) :
             /\ calls[k].kind = "data"
             /\ \A j \in (callsAtOpen + 1)..(k - 1) : calls[j].kind /= "data"

\* a block was delivered before the reconnect and another one after it
DeliveredAcrossReconnect ==
    session = "later" /\ LastDataBefore > 0 /\ FirstDataSince > 0

\* C13 as stated: the first block delivered after a reconnect has a number
\* strictly greater than the last block delivered before it.
C13_FirstAfterReconnectAbove ==
    DeliveredAcrossReconnect =>
        calls[FirstDataSince].block.num > calls[LastDataBefore].block.num

\* C13: the first block delivered after a reconnect has a number strictly
\* greater than the last block delivered before it, when the handler was
\* given no undo signal between the two deliveries.
C13_FirstAfterReconnectAboveUnlessUndone ==
    (/\ DeliveredAcrossReconnect
     /\ \A k \in LastDataBefore..FirstDataSince : calls[k].kind /= "undo")
    => calls[FirstDataSince].block.num > calls[LastDataBefore].block.num

\* blocks delivered through the buffer on both sides of a reconnect that
\* followed a transient receive error
C13_Witness ==
    /\ DeliveredAcrossReconnect
    /\ buffer.present
    /\ lastErr.kind = "Unavailable"
    /\ calls[FirstDataSince].block.num = calls[LastDataBefore].block.num + 1

\* ---------------------------------------------------------------------- C14
\* C14 as stated: without infinite retry, the consecutive session attempts
\* that end in a retryable error without any message received never exceed
\* 15.
C14_AtMostFifteenAttempts == ~infiniteRetry => streak <= MaxRetries

\* C14: without infinite retry the backoff grants 15 retries: its counter
\* never exceeds 15, the consecutive session attempts that end in a retryable
\* error without any message received never exceed 16, and the 16th one (the
\* context not canceled) ends run with ErrBackOffExpired, which Run hands to
\* Shutdown, instead of another sleep and reconnect.
C14_FifteenRetries ==
    ~infiniteRetry =>
        /\ numTries <= MaxRetries
        /\ streak <= MaxRetries + 1
        /\ (streak = MaxRetries + 1 /\ ~canceled) =>
               /\ pc \in {"returned", "terminated"}
               /\ runErr.kind = "BackOffExpired"
               /\ pc = "terminated" => shutdownErr = runErr
        /\ (runErr.kind = "BackOffExpired" /\ ~canceled) =>
               (numTries = MaxRetries /\ IsRetryable(lastErr))

\* Run has shut down with ErrBackOffExpired after 16 attempts in a row that
\* failed without a message
C14_Witness ==
    /\ ~infiniteRetry
    /\ pc = "terminated"
    /\ streak = MaxRetries + 1
    /\ shutdownErr.kind = "BackOffExpired"

\* ---------------------------------------------------------------------- C15
\* C15: when doRequest returns, the counter of the backoff the decision is
\* taken on is 0 when the session received a message and the counter as it
\* was when it received none: the counter after the step is that value, plus
\* one when the sinker goes to sleep; a retryable error after a message
\* always leads to the sleep (the context not canceled), and a retryable
\* error without a message when the counter is 15 never does.
C15_ResetOnReceivedMessage ==
    [][SessionEnds =>
         LET base == IF receivedMessage' THEN 0 ELSE numTries
         IN  /\ numTries' = IF pc' = "sleep" /\ ~infiniteRetry THEN base + 1
                            ELSE base
             /\ (receivedMessage' /\ IsRetryable(lastErr') /\ ~canceled')
                    => pc' = "sleep"
             /\ (~receivedMessage' /\ ~infiniteRetry /\ numTries = MaxRetries)
                    => pc' = "returned"
      ]_vars

\* a session opened after a retry (the counter was 1 or more) received a
\* message and ended on an error that is not retryable: the counter is 0
C15_Witness ==
    /\ ~infiniteRetry
    /\ session = "later"
    /\ pc = "returned"
    /\ receivedMessage
    /\ ~IsRetryable(lastErr)
    /\ lastErr.kind /= "EOF"
    /\ numTries = 0

\* ---------------------------------------------------------------------- C16
\* C16: the error run returns when the backoff has expired is
\* ErrBackOffExpired wrapping the cause of the error the last doRequest
\* returned, a retryable one.
C16_WrapsLastCause ==
    runErr.kind = "BackOffExpired" =>
        /\ IsRetryable(lastErr)
        /\ runErr.cause = lastErr.kind
        /\ (pc = "terminated" /\ ~canceled) => shutdownErr = runErr

\* the backoff expired on the receive error of the only stream that was
\* opened, after 15 failures to open one: the cause wrapped is the receive
\* error, not the failure to open
C16_Witness ==
    /\ pc = "terminated"
    /\ shutdownErr.kind = "BackOffExpired"
    /\ shutdownErr.cause = "Unavailable"
    /\ session = "first"
    /\ streak = MaxRetries + 1

\* ---------------------------------------------------------------------- C17
\* C17: with infinite retry a retryable error always leads to the sleep (the
\* context not canceled), the backoff counts nothing, and Run never shuts
\* down with ErrBackOffExpired.
C17_InfiniteRetryNeverExpires ==
    [][infiniteRetry =>
         /\ (SessionEnds /\ IsRetryable(lastErr') /\ ~canceled')
                => pc' = "sleep"
         /\ numTries' = 0
         /\ shutdownErr'.kind /= "BackOffExpired"
         /\ runErr'.kind = "BackOffExpired" => canceled'
      ]_vars

\* with infinite retry the sinker sleeps again after 16 attempts in a row
\* that failed without a message
C17_Witness ==
    /\ infiniteRetry
    /\ pc = "sleep"
    /\ streak = MaxRetries + 1

\* ---------------------------------------------------------------------- C18
FatalCodes == {"Unauthenticated", "InvalidArgument"}

\* C18: a receive error with gRPC code Unauthenticated or InvalidArgument is
\* not retryable: doRequest returns an error of that status, the backoff is
\* not consulted, run returns without sleep, nothing but the end of Run
\* follows, with no new request, and (the context not being canceled
\* meanwhile) run returns that error, no handler is called any more and Run
\* shuts down with it.
C18_AuthAndArgumentFatal ==
    [][/\ (SessionEnds /\ lastErr'.kind \in FatalCodes)
          => /\ ~IsRetryable(lastErr')
             /\ pc' = "returned"
             /\ numTries' = ResetTries(receivedMessage, numTries)
             /\ calls' = calls
             /\ ~canceled' => runErr' = lastErr'
       /\ (lastErr.kind \in FatalCodes)
          => /\ pc' \in {"returned", "terminated"}
             /\ lastErr' = lastErr
             /\ runErr' = runErr
             /\ req' = req
             /\ numTries' = numTries
             /\ ~canceled' => (runErr' = lastErr /\ calls' = calls)
             /\ (pc' = "terminated" /\ ~canceled')
                    => (shutdownErr' = lastErr /\ shutdownErr' /= NoErr)
      ]_vars

\* Run has shut down with the Unauthenticated status met in a session opened
\* after a retry, blocks delivered before
C18_Witness ==
    /\ pc = "terminated"
    /\ shutdownErr.kind = "Unauthenticated"
    /\ session = "later"
    /\ numTries = 0
    /\ DataCallsOf /= <<>>

\* ---------------------------------------------------------------------- C19
\* a data or undo handler is invoked in the step and returns ret
HandlerReturned(ret) ==
    /\ pc = "recv"
    /\ calls' /= calls
    /\ calls'[Len(calls')].ret = ret

\* C19: when HandleBlockScopedData or HandleBlockUndoSignal returns a plain
\* error, doRequest returns at once with an error that is not retryable: the
\* call is the last one of the step, the backoff is not consulted, run
\* returns without sleep, nothing but the end of Run follows, with no new
\* request, and (the context not being canceled meanwhile) run returns the
\* wrapped handler error, no handler is called any more and Run shuts down
\* with it.
C19_PlainHandlerErrorFatal ==
    [][/\ HandlerReturned("err")
          => /\ lastErr' = HandlerErr("err")
             /\ ~IsRetryable(lastErr')
             /\ Len(calls') = Len(calls) + 1
             /\ pc' = "returned"
             /\ numTries' = 0
             /\ ~canceled' => runErr' = lastErr'
       /\ (lastErr = HandlerErr("err"))
          => /\ pc' \in {"returned", "terminated"}
             /\ lastErr' = lastErr
             /\ runErr' = runErr
             /\ req' = req
             /\ numTries' = numTries
             /\ ~canceled' => (runErr' = lastErr /\ calls' = calls)
             /\ (pc' = "terminated" /\ ~canceled')
                    => (shutdownErr' = lastErr /\ shutdownErr' /= NoErr)
      ]_vars

\* Run has shut down with the plain error HandleBlockUndoSignal returned,
\* blocks delivered before
C19_Witness ==
    /\ pc = "terminated"
    /\ shutdownErr = HandlerErr("err")
    /\ calls[Len(calls)].kind = "undo"
    /\ calls[Len(calls)].ret = "err"
    /\ Len(calls) >= 2

\* ---------------------------------------------------------------------- C20
\* C20: when HandleBlockScopedData or HandleBlockUndoSignal returns an error
\* marked retryable, doRequest returns at once with a retryable error, as it
\* does for a transient receive error: the backoff, reset by the message, is
\* consulted, the sinker sleeps and then builds a new request (the context
\* not being canceled meanwhile), and run never returns the handler error
\* itself: at most ErrBackOffExpired wrapping it.
C20_RetryableHandlerErrorRetried ==
    [][/\ HandlerReturned("retryable")
          => /\ lastErr' = HandlerErr("retryable")
             /\ IsRetryable(lastErr')
             /\ Len(calls') = Len(calls) + 1
             /\ ~canceled'
                    => /\ pc' = "sleep"
                       /\ runErr' = runErr
                       /\ numTries' =
                              NextBackOff(infiniteRetry, 0, FALSE).tries
       /\ (pc = "sleep" /\ lastErr = HandlerErr("retryable"))
          => (pc' \in {"sleep", "loop"} /\ calls' = calls)
       /\ (pc = "loop" /\ lastErr = HandlerErr("retryable") /\ pc' /= "loop")
          => req'.startCursor = CursorString(activeCursor)
       /\ runErr'.kind /= "Handler" \/ ~IsRetryable(runErr')
      ]_vars

\* a session opened after HandleBlockScopedData returned a retryable error
\* has received its first message
C20_Witness ==
    /\ pc = "recv"
    /\ session = "later"
    /\ receivedMessage
    /\ lastErr = HandlerErr("retryable")
    /\ calls /= <<>>
    /\ calls[Len(calls)].kind = "data"
    /\ calls[Len(calls)].ret = "retryable"
    /\ runErr = NoErr

\* ---------------------------------------------------------------------- C21
\* C21 as stated: a run that ended on io.EOF shuts down with a nil error.
C21_EOFShutsDownNil ==
    (pc = "terminated" /\ lastErr = EOF) => shutdownErr = NoErr

\* C21: once doRequest has returned io.EOF, whatever was received before,
\* run has returned nil: the sinker is never asleep, building a request or
\* receiving again, and Run shuts down with a nil error, or with the error
\* HandleBlockRangeCompletion returned when it was called and failed.
C21_EOFEndsRun ==
    lastErr = EOF =>
        /\ pc \in {"returned", "terminated"}
        /\ runErr = NoErr
        /\ pc = "terminated" =>
               \/ shutdownErr = NoErr
               \/ /\ shutdownErr.kind = "Completion"
                  /\ calls /= <<>>
                  /\ calls[Len(calls)].kind = "completion"
                  /\ calls[Len(calls)].ret = "err"

\* Run has shut down with a nil error on the io.EOF of a session opened
\* after a retry, which received no message, before the stop block was seen
C21_Witness ==
    /\ pc = "terminated"
    /\ lastErr = EOF
    /\ shutdownErr = NoErr
    /\ session = "later"
    /\ ~receivedMessage
    /\ blockRange.hasEnd
    /\ maxNum < blockRange.end - 1
    /\ DataCallsOf /= <<>>

\* ---------------------------------------------------------------------- C22
\* C22: once a receive has failed on the cancellation of the context, run
\* has returned nil without backoff and without reconnect, and Run shuts
\* down with a nil error.
C22_CancelShutsDownNil ==
    (lastErr.kind = "Canceled") =>
        /\ pc \in {"returned", "terminated"}
        /\ runErr = NoErr
        /\ pc = "terminated" => shutdownErr = NoErr

\* Run has shut down with an error after the context was canceled in a
\* session that had delivered a block: the error of the completion callback,
\* called on the nil error of run
C22_Witness ==
    /\ pc = "terminated"
    /\ lastErr.kind = "Canceled"
    /\ canceled
    /\ runErr = NoErr
    /\ shutdownErr.kind = "Completion"
    /\ DataCallsOf /= <<>>
    /\ calls[Len(calls)].kind = "completion"

\* ---------------------------------------------------------------------- C23
\* once the context is canceled Run ends
C23_CancelEndsRun == canceled ~> (pc = "terminated")

\* no backoff sleep begins once the context is canceled
C23_NoSleepAfterCancel == [][canceled => (pc' = "sleep" => pc = "sleep")]_vars

\* C23: after the context is canceled Run eventually returns; before that a
\* sleep in progress may complete but none begins, and no handler invocation
\* starts (one in flight at the cancellation is part of the step that began
\* before it).
C23_CancelStopsRun ==
    /\ C23_CancelEndsRun
    /\ C23_NoSleepAfterCancel
    /\ [][canceled => calls' = calls]_vars

\* the context was canceled during a backoff sleep; the sleep completed, the
\* stream could not be opened, and a handler method was then invoked
C23_Witness ==
    /\ pc = "terminated"
    /\ canceled
    /\ lastErr.kind = "Open"
    /\ runErr = NoErr
    /\ calls /= <<>>
    /\ calls[Len(calls)].kind = "completion"
    /\ Len(calls) >= 2

\* ---------------------------------------------------------------------- C24
\* run has built a request
RequestBuilt == session /= "none" \/ lastErr /= NoErr

C25_IsLiveOfDeliveredBlock ==
    \A k \in 1..Len(calls) :
        calls[k].kind = "data" =>
            /\ calls[k].isLive = "nil" <=> ~livenessChecker.present
            /\ livenessChecker.present =>
                   (calls[k].isLive = "true"
                        <=> IsLive(livenessChecker, calls[k].block))

\* with a checker and a buffer, a block that is not live was handed over
\* with isLive false on the receipt of a block that is live
C25_Witness ==
    /\ livenessChecker.present
    /\ buffer.present
    /\ calls /= <<>>
    /\ calls[Len(calls)].kind = "data"
    /\ calls[Len(calls)].isLive = "false"
    /\ lastMsg.type = "data"
    /\ IsLive(livenessChecker, lastMsg.clock)
    /\ pc = "recv"

\* ---------------------------------------------------------------------- C26
\* C26: when the cursor of a BlockScopedData or BlockUndoSignal does not
\* parse, doRequest returns at once an error that is not retryable: no
\* handler call is made for the message, the active cursor and the buffer
\* are left as they were, run returns without sleep, nothing but the end of
\* Run follows, with no new request, and (the context not being canceled
\* meanwhile) run returns that error and Run shuts down with it.
C26_InvalidCursorFatal ==
    [][/\ (MessageStep /\ NewCursor(WireCursor(lastMsg')).err)
          => /\ lastErr'.kind = "InvalidCursor"
             /\ ~IsRetryable(lastErr')
             /\ calls' = calls
             /\ activeCursor' = activeCursor
             /\ buffer' = buffer
             /\ pc' = "returned"
             /\ ~canceled' => runErr' = lastErr'
       /\ (lastErr.kind = "InvalidCursor")
          => /\ pc' \in {"returned", "terminated"}
             /\ lastErr' = lastErr
             /\ runErr' = runErr
             /\ req' = req
             /\ activeCursor' = activeCursor
             /\ ~canceled' => (runErr' = lastErr /\ calls' = calls)
             /\ (pc' = "terminated" /\ ~canceled')
                    => (shutdownErr' = lastErr /\ shutdownErr' /= NoErr)
      ]_vars

\* Run has shut down with the error of an undo signal whose cursor did not
\* parse, the active cursor still that of the block delivered before
C26_Witness ==
    /\ pc = "terminated"
    /\ shutdownErr.kind = "InvalidCursor"
    /\ lastMsg.type = "undo"
    /\ NewCursor(lastMsg.lastValidCursor).err
    /\ DataCallsOf /= <<>>
    /\ ~activeCursor.blank
    /\ CursorBlock(activeCursor) = calls[Len(calls)].block

\* ---------------------------------------------------------------------- C27
\* the block numbers of the buffered blocks
BufferNums(buf) == [k \in 1..Len(buf.data) |-> buf.data[k].clock.num]

\* a BlockScopedData whose cursor parses is received in the step
DataStep ==
    /\ MessageStep
    /\ lastMsg'.type = "data"
    /\ ~NewCursor(lastMsg'.cursor).err

\* C27: the undo buffer never holds more than its capacity C, and holds its
\* blocks in ascending order of number; a BlockScopedData received when it
\* holds C blocks makes it release exactly one block, the oldest, which is
\* handed to the handler, the others staying in order with the new block
\* last; one received when it holds fewer releases nothing.
C27_BufferFIFO ==
    [][buffer'.present =>
         /\ Len(buffer'.data) <= Capacity(buffer')
         /\ StrictlyIncreasing(BufferNums(buffer'))
         /\ (DataStep /\ Len(buffer.data) = Capacity(buffer))
                => /\ Len(calls') = Len(calls) + 1
                   /\ calls'[Len(calls')].kind = "data"
                   /\ calls'[Len(calls')].block = Head(buffer.data).clock
                   /\ calls'[Len(calls')].wire = Head(buffer.data).cursor
                   /\ buffer'.data = Append(Tail(buffer.data), lastMsg')
         /\ (DataStep /\ Len(buffer.data) < Capacity(buffer))
                => /\ calls' = calls
                   /\ buffer'.data = Append(buffer.data, lastMsg')
      ]_vars

\* a buffer of capacity 2 is full again after an undo signal took a block
\* out of it, one block released so far
C27_Witness ==
    /\ buffer.present
    /\ Capacity(buffer) = 2
    /\ Len(buffer.data) = 2
    /\ undoSeen
    /\ Len(DataCallsOf) >= 1

\* ---------------------------------------------------------------------- C28
\* a message of one of the types that are neither block data nor an undo
\* signal is received in the step
FrameStep ==
    /\ MessageStep
    /\ lastMsg'.type \in {"progress", "session", "debug", "unknown"}

\* C28: a Progress, Session, DebugSnapshot or unknown message makes no
\* handler call and leaves the active cursor and the undo buffer as they
\* were, and the session goes on receiving: doRequest has not returned.
C28_FramesLeaveDeliveryAlone ==
    [][FrameStep =>
         /\ calls' = calls
         /\ activeCursor' = activeCursor
         /\ buffer' = buffer
         /\ pc' = "recv"
         /\ lastErr' = lastErr
         /\ runErr' = runErr
      ]_vars

\* an unknown message was received by a session that holds a block in its
\* buffer and a cursor, and the session is still receiving
C28_Witness ==
    /\ lastMsg.type = "unknown"
    /\ pc = "recv"
    /\ buffer.present
    /\ Len(buffer.data) = 1
    /\ activeCursor /= BlankCursor

\* ---------------------------------------------------------------------- C29
\* the first message of the session, its Session message, is received
FirstSessionStep == pc = "recv" /\ ~receivedMessage /\ receivedMessage'

\* a Session message is received by a session that has had one already
ExtraSessionStep == MessageStep /\ lastMsg'.type = "session"

\* C29: the first Session message of an RPC records its resolved start
\* block in requestActiveStartBlock, and a further Session message of the
\* same RPC leaves requestActiveStartBlock as it was.
C29_OnlyFirstSessionRecorded ==
    [][/\ FirstSessionStep
            => requestActiveStartBlock' = ResolvedStartBlock(req)
       /\ ExtraSessionStep
            => requestActiveStartBlock' = requestActiveStartBlock
      ]_vars

\* a second Session message of the RPC has replaced the resolved start block
\* the first one had recorded
C29_Witness ==
    /\ lastMsg.type = "session"
    /\ pc = "recv"
    /\ requestActiveStartBlock = lastMsg.resolvedStartBlock
    /\ requestActiveStartBlock /= ResolvedStartBlock(req)

\* ---------------------------------------------------------------------- C30
\* a Progress message is received in the step
ProgressStep == MessageStep /\ lastMsg'.type = "progress"

\* the completed ranges of a stage that contain block b
Containing(ranges, b) ==
    {j \in 1..Len(ranges) :
        ranges[j].startBlock <= b /\ b <= ranges[j].endBlock}

\* The gauge of stage i after a Progress message with stages st as stated:
\* the end of the range that contains the start block for the last stage in
\* production mode, the end of the first range otherwise, and the value it
\* had when there is no such range.
StatedGauge(m, rasb, st, gauge, i) ==
    LET ranges == st[i + 1]
    IN  IF m = "production" /\ i = Len(st) - 1
        THEN IF Containing(ranges, rasb) = {} THEN gauge[i]
             ELSE ranges[CHOOSE j \in Containing(ranges, rasb) : TRUE].endBlock
        ELSE IF ranges = <<>> THEN gauge[i] ELSE ranges[1].endBlock

\* C30: a Progress message sets the last contiguous block of the last stage,
\* in production mode, to the end of the completed range that contains
\* requestActiveStartBlock, and that of every other stage, and of every
\* stage in development mode, to the end of its first completed range.
C30_GaugeOfContainingRange ==
    [][ProgressStep =>
         \A i \in Stages :
            i < Len(lastMsg'.stages) =>
               lastContiguousBlock'[i] =
                  StatedGauge(mode, requestActiveStartBlock, lastMsg'.stages,
                              lastContiguousBlock, i)
      ]_vars

\* in production mode a Progress message whose last stage has a completed
\* range that starts below the start block and contains it has left the
\* gauge of that stage unset
C30_Witness ==
    /\ mode = "production"
    /\ lastMsg.type = "progress"
    /\ LET i == Len(lastMsg.stages) - 1
           ranges == lastMsg.stages[i + 1]
       IN  /\ \E j \in Containing(ranges, requestActiveStartBlock) :
                 ranges[j].startBlock < requestActiveStartBlock
           /\ lastContiguousBlock[i] = Unset

\* ---------------------------------------------------------------------- C31
\* the number of the last stage of a Progress message
LastStage(msg) == Len(msg.stages) - 1

LastProcessedCursorString ==
    LET oks == {k \in 1..callsAtOpen : calls[k].ret = "ok"}
    IN  IF oks = {} THEN CursorString(BlankCursor)
        ELSE CursorString(calls[CHOOSE k \in oks : \A j \in oks : j <= k].cursor)

\* the current session was opened after HandleBlockScopedData had returned a
\* retryable error, in a sinker without buffer
OpenedAfterRetryableData ==
    /\ pc = "recv"
    /\ session = "later"
    /\ ~buffer.present
    /\ callsAtOpen > 0
    /\ calls[callsAtOpen].kind = "data"
    /\ calls[callsAtOpen].ret = "retryable"

\* C32: without buffer, the session opened after HandleBlockScopedData
\* returned a retryable error for a block starts from the cursor of the last
\* invocation the handler processed successfully, and the block is not
\* skipped: absent undo signals no higher block is handed to the handler
\* before that block is handed to it again.
C32_FailedBlockDeliveredAgain ==
    /\ OpenedAfterRetryableData => req.startCursor = LastProcessedCursorString
    /\ (~buffer.present /\ ~undoSeen)
          => \A k \in 1..Len(calls) : \A l \in (k + 1)..Len(calls) :
                (/\ calls[k].kind = "data"
                 /\ calls[k].ret = "retryable"
                 /\ calls[l].kind = "data"
                 /\ calls[l].block.num > calls[k].block.num)
                   => \E m \in (k + 1)..(l - 1) :
                         /\ calls[m].kind = "data"
                         /\ calls[m].block.num = calls[k].block.num

\* without buffer and undo signals, the handler returned a retryable error
\* for a block and its next invocation, in the session opened from the
\* cursor of that very block, was for the block above it
C32_Witness ==
    /\ ~buffer.present
    /\ ~undoSeen
    /\ pc = "recv"
    /\ session = "later"
    /\ callsAtOpen > 0
    /\ Len(calls) = callsAtOpen + 1
    /\ calls[callsAtOpen].kind = "data"
    /\ calls[callsAtOpen].ret = "retryable"
    /\ req.startCursor = CursorString(calls[callsAtOpen].cursor)
    /\ calls[Len(calls)].kind = "data"
    /\ calls[Len(calls)].ret = "ok"
    /\ calls[Len(calls)].block.num = calls[callsAtOpen].block.num + 1

\* ---------------------------------------------------------------------- C33
\* no HandleBlockScopedData invocation has returned an error
HandlerNeverFailed == \A k \in 1..Len(calls) : calls[k].ret = "ok"

\* each number of the sequence is the one before plus one
Contiguous(nums) == \A k \in 1..(Len(nums) - 1) : nums[k + 1] = nums[k] + 1

\* the numbers of the blocks handed to HandleBlockScopedData so far, then
\* those of the blocks the buffer holds
DeliveredThenHeld ==
    Nums(DataCallsOf)
        \o (IF buffer.present THEN BufferNums(buffer) ELSE <<>>)

\* C33: while the handler has not failed and no undo signal was received,
\* whatever the stream failures and reconnects, the blocks handed to
\* HandleBlockScopedData followed by the blocks held in the buffer have
\* consecutive numbers, none missing and none twice, and the end of a
\* session, the sleep and the opening of the next session leave the buffer
\* as it is.
C33_NoLossNoDuplicate ==
    [][(HandlerNeverFailed' /\ ~undoSeen') =>
          /\ Contiguous(DeliveredThenHeld')
          /\ (SessionEnds \/ pc \in {"sleep", "loop"}) => buffer' = buffer
      ]_vars

\* a session opened after a transient failure, with a block in the buffer
\* that the session before had received, has released that block to the
\* handler
C33_Witness ==
    /\ HandlerNeverFailed
    /\ ~undoSeen
    /\ session = "later"
    /\ lastErr.kind \in {"Unavailable", "Open"}
    /\ buffer.present
    /\ buffer.data /= <<>>
    /\ Len(calls) > callsAtOpen
    /\ calls[Len(calls)].kind = "data"
    /\ req.startCursor.kind = "opaque"
    /\ calls[Len(calls)].block.num <= req.startCursor.block.num

\* ---------------------------------------------------------------------- C34
\* the position in calls of the last HandleBlockScopedData invocation before
\* position k (0: there is none)
LastDataCallBefore(k) ==
    LET ds == {j \in 1..(k - 1) : calls[j].kind = "data"}
    IN  IF ds = {} THEN 0 ELSE CHOOSE j \in ds : \A i \in ds : i <= j

\* C34: the cursor handed to HandleBlockRangeCompletion is the cursor that
\* was handed to the last HandleBlockScopedData invocation of the run, the
\* cursor of the last block delivered.
C34_CompletionCursorIsLastDelivered ==
    \A k \in 1..Len(calls) :
        (calls[k].kind = "completion" /\ LastDataCallBefore(k) > 0)
            => calls[k].cursor = calls[LastDataCallBefore(k)].cursor

\* a run with a buffer that met neither undo signal, failure nor cancellation
\* ended on the end of the stream, and the completion callback got the cursor
\* of the last block received, Capacity blocks above the last one delivered
C34_Witness ==
    /\ pc = "terminated"
    /\ buffer.present
    /\ Capacity(buffer) > 0
    /\ ~undoSeen
    /\ ~canceled
    /\ session = "first"
    /\ Len(calls) >= 2
    /\ calls[Len(calls)].kind = "completion"
    /\ calls[Len(calls) - 1].kind = "data"
    /\ calls[Len(calls)].cursor = activeCursor
    /\ CursorBlock(calls[Len(calls)].cursor).num
          = calls[Len(calls) - 1].block.num + Capacity(buffer)

\* ---------------------------------------------------------------------- C35
\* HandleBlockScopedData or HandleBlockUndoSignal returned an error that is
\* not retryable
HandlerFailedForGood ==
    \E k \in 1..Len(calls) :
        calls[k].kind \in {"data", "undo"} /\ calls[k].ret = "err"

\* C35: a run in which the handler returned an error that is not retryable
\* shuts down with an error, canceled context or not.
C35_HandlerErrorReachesShutdown ==
    (pc = "terminated" /\ HandlerFailedForGood) => shutdownErr /= NoErr

\* the handler returned a non-retryable error for a block while the context
\* was being canceled, run returned nil, the completion callback was called
\* and Shutdown got a nil error
C35_Witness ==
    /\ pc = "terminated"
    /\ canceled
    /\ lastErr = HandlerErr("err")
    /\ runErr = NoErr
    /\ shutdownErr = NoErr
    /\ Len(calls) >= 2
    /\ calls[Len(calls)].kind = "completion"
    /\ calls[Len(calls) - 1].kind = "data"
    /\ calls[Len(calls) - 1].ret = "err"

\* ---------------------------------------------------------------------- C36
\* once Shutdown was called by another task Run ends
C36_ShutdownEndsRun == closed ~> (pc = "terminated")

\* no session is opened once Shutdown was called
C36_NoSessionAfterShutdown == [][closed => ~(pc = "loop" /\ pc' = "recv")]_vars

\* C36: after Shutdown is called by another task, the context not being
\* canceled, no session is opened, no handler invocation starts, and Run
\* eventually returns, with and without infinite retry.
C36_ShutdownStopsRun ==
    /\ C36_ShutdownEndsRun
    /\ C36_NoSessionAfterShutdown
    /\ [][closed => calls' = calls]_vars

\* with infinite retry, Shutdown was called, the call that opens the stream
\* failed on the closed client since, and run sleeps before it tries again
C36_Witness ==
    /\ closed
    /\ ~canceled
    /\ infiniteRetry
    /\ pc = "sleep"
    /\ lastErr = retryable(Err("Open", FALSE, "nil"))
    /\ runErr = NoErr

\* ---------------------------------------------------------------------- C37
\* the error of the last doRequest carries the status Unauthenticated or
\* InvalidArgument, met by a receive or by the Blocks call
RefusedBy(e) ==
    \/ e.kind \in FatalCodes
    \/ e.kind = "Open" /\ e.cause \in FatalCodes

\* C37: an error with the status Unauthenticated or InvalidArgument ends the
\* session as a non-retryable error, whether a receive or the Blocks call
\* returned it: run returns without sleep, and no request is built after it.
C37_SameClassAtOpenAndReceive ==
    [][/\ (SessionEnds /\ RefusedBy(lastErr'))
          => /\ ~IsRetryable(lastErr')
             /\ pc' = "returned"
       /\ RefusedBy(lastErr)
          => /\ pc' \in {"returned", "terminated"}
             /\ req' = req
      ]_vars

\* the Blocks call failed with Unauthenticated, run slept, and a new session
\* was opened, the context not canceled
C37_Witness ==
    /\ pc = "recv"
    /\ ~canceled
    /\ lastErr = OpenError("Unauthenticated")
    /\ session = "first"
    /\ numTries = 1

\* ---------------------------------------------------------------------- C38
\* the keys of the configured extra headers
ExtraKeys == {extraHeaders[i][1] : i \in 1..Len(extraHeaders)}

\* the value stated for key k: that of the extra header when there is one,
\* else that of the client's header
StatedValue(k) ==
    IF k \in ExtraKeys THEN parseHeaders(extraHeaders)[k]
    ELSE clientHeaders.kv[k]

\* C38: the metadata put on every request holds, for each key of the extra
\* headers and of the client's headers, exactly one pair, whose value is the
\* extra header's when both have the key, and no other pair.
C38_EachHeaderOnce ==
    pc \notin {"new", "panic"} =>
        /\ \A k \in ExtraKeys \cup DOMAIN clientHeaders.kv :
              CopiesIn(<<k, StatedValue(k)>>, headersArray) = 1
        /\ \A kv \in BagToSet(headersArray) :
              /\ kv[1] \in ExtraKeys \cup DOMAIN clientHeaders.kv
              /\ kv[2] = StatedValue(kv[1])

\* a session is open whose metadata holds the pair of an extra header twice,
\* the client having a header of the same key with another value, which the
\* metadata does not hold
C38_Witness ==
    /\ pc = "recv"
    /\ \E k \in ExtraKeys \cap DOMAIN clientHeaders.kv :
          /\ clientHeaders.kv[k] /= parseHeaders(extraHeaders)[k]
          /\ CopiesIn(<<k, parseHeaders(extraHeaders)[k]>>, headersArray) = 2
          /\ CopiesIn(<<k, clientHeaders.kv[k]>>, headersArray) = 0

\* ---------------------------------------------------------------------- C39
\* the run ended with ErrBackOffExpired handed to Shutdown
Expired == pc = "terminated" /\ shutdownErr.kind = "BackOffExpired"

\* a session ended with an error that is not retryable
EndedForGood == lastErr /= NoErr /\ ~IsRetryable(lastErr)

\* as stated: without infinite retry, a run whose sessions all end with a
\* retryable error ends with ErrBackOffExpired, the sessions that received a
\* message before they failed included
C39_RetryableSessionsExpire ==
    <>(Expired \/ EndedForGood)

\* C39: without infinite retry, a run whose sessions all end with a retryable
\* error and receive no message at all ends with ErrBackOffExpired.
C39_UnproductiveSessionsExpire ==
    <>(Expired \/ EndedForGood \/ receivedMessage)

\* the backoff expired in a run whose sixteen sessions all broke before any
\* message
C39_Witness ==
    /\ ~infiniteRetry
    /\ Expired
    /\ ~receivedMessage
    /\ calls = <<>>
    /\ streak = MaxRetries + 1
    /\ eventsLeft = 0
    /\ lastErr = RecvError("Unavailable")

====
